---------------------------- MODULE Spec2Model ----------------------------
(***************************************************************************)
(* A model of the archive operations of iArchive (src/src/main.py): the    *)
(* Manage tab (load / append / delete-by-repack and the checksum worker),  *)
(* the Create tab (input list, format, create_zip / create_tar /           *)
(* create_single_compress) and the Extract tab (run_extraction).           *)
(*                                                                         *)
(* Strings are sequences of tokens ("/", "a", ".tar", ".gz", ...), so that *)
(* str.endswith, os.path.basename, os.path.relpath and str.replace are     *)
(* computed on the text and not assumed.  A file on disk is a record       *)
(* [kind, entries, data]: kind is the format of its CONTENT (what the      *)
(* library's sniffing sees), independent of the suffix of its name.        *)
(***************************************************************************)
EXTENDS Integers, Sequences, FiniteSets, TLC

VARIABLES
    fs,                 \* the file system: path -> file record, or NoFile
    msgs,               \* message boxes shown by the handler that ran last
    \* ---- Manage tab
    line_manage_path,   \* self.line_manage_path.text()
    table_files,        \* rows of self.table_files: <<name, type>>
    currentRow,         \* self.table_files.currentRow(), 1-based; 0 = no row
    btn_delete,         \* self.btn_delete.isEnabled()
    pc,                 \* position of the UI thread inside delete_from_archive
    op,                 \* the operation in progress or last run, with the archive as it was before
    worker,             \* self.worker: generation of the current ChecksumWorker, 0 = None
    wstate,             \* per generation: state of that QThread
    emits,              \* per generation: number of result.emit calls
    queue,              \* queued result signals not yet delivered to the UI thread
    lbl_checksum,       \* self.lbl_checksum text
    \* ---- Create tab
    file_list,          \* self.file_list items
    combo_format,       \* self.combo_format.currentText()
    destination_path,   \* self.destination_path
    HAS_PYZIPPER,       \* module flag set at import
    created,            \* the request process_archive_action ran last and what it did
    \* ---- Extract tab
    line_extract_src,   \* self.line_extract_src.text()
    line_extract_exclude, \* self.line_extract_exclude.text().strip(), as run_extraction read it last
    destdir,            \* the files written into the destination directory
    stage               \* the handler that ran last in the Create and Extract tabs

vars == << fs, msgs, line_manage_path, table_files, currentRow, btn_delete, pc, op,
           worker, wstate, emits, queue, lbl_checksum,
           file_list, combo_format, destination_path, HAS_PYZIPPER, created,
           line_extract_src, line_extract_exclude, destdir, stage >>

manageVars == << line_manage_path, table_files, currentRow, btn_delete, pc, op >>
workerVars == << worker, wstate, emits, queue, lbl_checksum >>
createVars == << file_list, combo_format, destination_path, HAS_PYZIPPER, created >>
extractVars == << line_extract_src, line_extract_exclude, destdir, stage >>

-----------------------------------------------------------------------------
(* Bounds of the model *)

\* longest entry list an archive is appended to
MaxEntries == 3
\* number of ChecksumWorker objects created in one behaviour
MaxLoads == 2
\* longest input list of the Create tab
MaxFiles == 2

-----------------------------------------------------------------------------
(* Strings *)

NoPath == << >>
NoFile == [kind |-> "absent", entries |-> << >>, data |-> 0]

\* str.endswith(suf)
EndsWith(s, suf) ==
    /\ Len(suf) <= Len(s)
    /\ SubSeq(s, Len(s) - Len(suf) + 1, Len(s)) = suf

\* position of the last "/" of p, 0 when there is none
LastSlash(p) ==
    LET at == {i \in 1..Len(p) : p[i] = "/"}
    IN  IF at = {} THEN 0 ELSE CHOOSE i \in at : \A j \in at : j <= i

\* os.path.basename(p)
Basename(p) == SubSeq(p, LastSlash(p) + 1, Len(p))

\* os.path.dirname(p)
Dirname(p) ==
    IF LastSlash(p) <= 1 THEN SubSeq(p, 1, LastSlash(p))
    ELSE SubSeq(p, 1, LastSlash(p) - 1)

\* os.path.relpath(p, start) for p below start
Relpath(p, start) ==
    IF start = <<"/">> THEN SubSeq(p, 2, Len(p))
    ELSE SubSeq(p, Len(start) + 2, Len(p))

\* os.path.join(a, b)
Join(a, b) == IF a = << >> THEN b ELSE a \o <<"/">> \o b

\* the names of the entries of an archive, in order
Names(entries) == [i \in 1..Len(entries) |-> entries[i].name]

-----------------------------------------------------------------------------
(* The Manage tab's files *)

F(n, d) == [name |-> n, isdir |-> FALSE, data |-> d, enc |-> FALSE]
D(n) == [name |-> n, isdir |-> TRUE, data |-> 0, enc |-> FALSE]

TarPath == <<"/", "m", "/", "a", ".tar">>
ZipPath == <<"/", "m", "/", "b", ".zip">>
TgzPath == <<"/", "m", "/", "c", ".tar", ".gz">>
\* a zip archive saved under a .tar name
ZipAsTarPath == <<"/", "m", "/", "d", ".tar">>

\* a text file saved under a .zip name
PlainPath == <<"/", "m", "/", "n", ".zip">>

LoadablePaths == {TarPath, ZipPath, TgzPath, ZipAsTarPath, PlainPath}

\* a repack that writes over the archive itself
TempPathInPlace(p) == p

\* temp_path = arc_path + ".tmp"
TempPath(p) == p \o <<".tmp">>

ManagePaths == LoadablePaths \cup {TempPath(p) : p \in LoadablePaths}

\* the file the "Select File to Append" dialog offers, with its content; its base
\* name is also the name of a member of the archives
AppendFiles ==
    {[path |-> <<"/", "u", "/", "a", ".txt">>, data |-> 4]}

ManageFs0 ==
    [p \in ManagePaths |->
        IF p = TarPath THEN
            [kind |-> "tar", data |-> 0,
             entries |-> <<F(<<"a", ".txt">>, 1), F(<<"b", ".txt">>, 2)>>]
        ELSE IF p = ZipPath THEN
            [kind |-> "zip", data |-> 0, entries |-> <<F(<<"a", ".txt">>, 1)>>]
        ELSE IF p = TgzPath THEN
            [kind |-> "targz", data |-> 0, entries |-> <<F(<<"a", ".txt">>, 1)>>]
        ELSE IF p = ZipAsTarPath THEN
            [kind |-> "zip", data |-> 0, entries |-> <<F(<<"b", ".txt">>, 2)>>]
        ELSE IF p = PlainPath THEN
            [kind |-> "plain", data |-> 9, entries |-> << >>]
        ELSE NoFile]

Gens == 1..MaxLoads
NoOp == [kind |-> "none", path |-> NoPath, name |-> NoPath, data |-> 0,
         pre |-> NoFile, members |-> << >>, idx |-> 0]

-----------------------------------------------------------------------------
(* Manage tab: load_archive_for_management *)

\* the mode load_archive_for_management opens a tar-family file with
ListMode(f) == IF EndsWith(f, <<".tar">>) THEN "tar" ELSE "targz"

Rows(entries, ftype) == [i \in 1..Len(entries) |-> <<entries[i].name, ftype>>]

\* zipfile.is_zipfile / tarfile.is_tarfile sniff the content of the file
IsZipfile(file) == file.kind = "zip"
IsTarfile(file) == file.kind \in {"tar", "targz"}

\* tarfile.open(f, mode) raises unless the content is what the mode names
ListRaises(f, file) ==
    /\ ~IsZipfile(file)
    /\ IsTarfile(file)
    /\ file.kind # ListMode(f)

\* the rows the try block adds to the table
ListRows(f, file) ==
    IF IsZipfile(file) THEN Rows(file.entries, "Zip Entry")
    ELSE IF IsTarfile(file) /\ ~ListRaises(f, file) THEN Rows(file.entries, "Tar Entry")
    ELSE << >>

\* the message boxes of load_archive_for_management
LoadMsgs(f, fsNow) ==
    IF f = NoPath THEN << >>
    ELSE IF ListRaises(f, fsNow[f]) THEN <<"CouldNotRead">>
    ELSE << >>

\* isRunning(): run() has not returned and the thread was not killed
IsRunning(g) == wstate[g] \in {"running", "emitted"}

\* a load that starts the new worker without stopping the previous one
LoadArchiveNoTerminate(f, fsNow) ==
    IF f = NoPath THEN
        UNCHANGED << line_manage_path, table_files, currentRow, btn_delete,
                     worker, wstate, lbl_checksum >>
    ELSE
        /\ worker < MaxLoads
        /\ wstate' = [g \in Gens |-> IF g = worker + 1 THEN "running" ELSE wstate[g]]
        /\ worker' = worker + 1
        /\ lbl_checksum' = [kind |-> "calculating", gen |-> 0]
        /\ line_manage_path' = f
        /\ table_files' = ListRows(f, fsNow[f])
        /\ currentRow' = 0
        /\ btn_delete' = EndsWith(f, <<".tar">>)

\* load_archive_for_management with the dialog answering f (NoPath: cancelled)
\* and the file system as the caller leaves it
LoadArchive(f, fsNow) ==
    IF f = NoPath THEN
        UNCHANGED << line_manage_path, table_files, currentRow, btn_delete,
                     worker, wstate, lbl_checksum >>
    ELSE
        /\ worker < MaxLoads
        /\ wstate' = [g \in Gens |->
                IF g = worker /\ IsRunning(g) THEN "terminated"
                ELSE IF g = worker + 1 THEN "running"
                ELSE wstate[g]]
        /\ worker' = worker + 1
        /\ lbl_checksum' = [kind |-> "calculating", gen |-> 0]
        /\ line_manage_path' = f
        /\ table_files' = ListRows(f, fsNow[f])
        /\ currentRow' = 0
        /\ btn_delete' = EndsWith(f, <<".tar">>)

DialogPaths == LoadablePaths \cup {NoPath}

\* the "Open Archive" button
Load(f) ==
    /\ pc = "idle"
    /\ f \in LoadablePaths
    /\ LoadArchive(f, fs)
    /\ msgs' = LoadMsgs(f, fs)
    /\ op' = [NoOp EXCEPT !.kind = "load", !.path = f]
    /\ UNCHANGED << fs, pc, emits, queue >>
    /\ UNCHANGED << createVars, extractVars >>

\* the user clicks a row of the table
SelectRow(r) ==
    /\ pc = "idle"
    /\ r \in 1..Len(table_files)
    /\ r # currentRow
    /\ currentRow' = r
    /\ UNCHANGED << fs, msgs, line_manage_path, table_files, btn_delete, pc, op >>
    /\ UNCHANGED << workerVars, createVars, extractVars >>

-----------------------------------------------------------------------------
(* The checksum worker thread and the queued delivery of its signal *)

\* ChecksumWorker.run: one emit, the digest or the error string
WorkerEmit(g, kind) ==
    /\ wstate[g] = "running"
    /\ emits' = [emits EXCEPT ![g] = @ + 1]
    /\ queue' = Append(queue, [gen |-> g, kind |-> kind])
    /\ wstate' = [wstate EXCEPT ![g] = "emitted"]
    /\ UNCHANGED << fs, msgs, worker, lbl_checksum >>
    /\ UNCHANGED << manageVars, createVars, extractVars >>

\* a run() whose except branch swallows the error instead of emitting it
WorkerFinishSilent(g) ==
    /\ wstate[g] \in {"running", "emitted"}
    /\ wstate' = [wstate EXCEPT ![g] = "finished"]
    /\ UNCHANGED << fs, msgs, worker, emits, queue, lbl_checksum >>
    /\ UNCHANGED << manageVars, createVars, extractVars >>

\* run() returns
WorkerFinish(g) ==
    /\ wstate[g] = "emitted"
    /\ wstate' = [wstate EXCEPT ![g] = "finished"]
    /\ UNCHANGED << fs, msgs, worker, emits, queue, lbl_checksum >>
    /\ UNCHANGED << manageVars, createVars, extractVars >>

\* the UI thread's event loop runs the slot of a queued result signal
Deliver ==
    /\ pc = "idle"
    /\ queue # << >>
    /\ lbl_checksum' = Head(queue)
    /\ queue' = Tail(queue)
    /\ UNCHANGED << fs, msgs, worker, wstate, emits >>
    /\ UNCHANGED << manageVars, createVars, extractVars >>

-----------------------------------------------------------------------------
(* Manage tab: append_to_archive *)

\* a dispatch that looks for ".tar" anywhere in the name
AppendKindAnywhere(arc) ==
    IF \E i \in 1..Len(arc) : arc[i] = ".tar" THEN "tar"
    ELSE IF \E i \in 1..Len(arc) : arc[i] = ".zip" THEN "zip"
    ELSE "unsupported"

\* the branch append_to_archive takes for the loaded path
AppendKind(arc) ==
    IF EndsWith(arc, <<".tar">>) THEN "tar"
    ELSE IF EndsWith(arc, <<".zip">>) THEN "zip"
    ELSE "unsupported"

\* tarfile.open(arc, 'a') raises on anything but a plain tar;
\* tf.add / zf.write raise when the file to add cannot be read
AppendRaises(arc, file, readable) ==
    \/ AppendKind(arc) = "tar" /\ file.kind # "tar"
    \/ ~readable

\* tf.add(f, arcname=basename) appends one member; ZipFile(arc, 'a') appends to a
\* zip and starts a new zip at the end of a file that is none
AppendEntry(arc, file, e) ==
    IF AppendKind(arc) = "tar" \/ IsZipfile(file)
    THEN [file EXCEPT !.entries = Append(@, e)]
    ELSE [kind |-> "zip", entries |-> <<e>>, data |-> 0]

AppendToArchive(f, readable, reload) ==
    /\ pc = "idle"
    /\ line_manage_path # NoPath
    /\ f \in AppendFiles
    /\ reload \in DialogPaths
    /\ Len(fs[line_manage_path].entries) < MaxEntries
    /\ LET arc == line_manage_path
           e == F(Basename(f.path), f.data)
           started == [NoOp EXCEPT !.kind = "append", !.path = arc,
                                   !.name = Basename(f.path), !.data = f.data,
                                   !.pre = fs[arc]]
       IN  /\ op' = started
           /\ IF AppendKind(arc) = "unsupported" THEN
                  /\ msgs' = <<"UnsupportedForAppend">>
                  /\ UNCHANGED << fs, line_manage_path, table_files, currentRow,
                                  btn_delete, worker, wstate, lbl_checksum >>
              ELSE IF AppendRaises(arc, fs[arc], readable) THEN
                  /\ msgs' = <<"Error">>
                  /\ UNCHANGED << fs, line_manage_path, table_files, currentRow,
                                  btn_delete, worker, wstate, lbl_checksum >>
              ELSE
                  /\ fs' = [fs EXCEPT ![arc] = AppendEntry(arc, fs[arc], e)]
                  /\ msgs' = <<"Appended">> \o LoadMsgs(reload, fs')
                  /\ LoadArchive(reload, fs')
    /\ UNCHANGED << pc, emits, queue >>
    /\ UNCHANGED << createVars, extractVars >>

-----------------------------------------------------------------------------
(* Manage tab: delete_from_archive, one action per step that can fail *)

\* a repack that keeps every member
KeepMemberAll(member, filename_to_del) == TRUE

\* the members the repack copies
KeepMember(member, filename_to_del) == member.name # filename_to_del

\* the click, the confirmation dialog and tarfile.open(arc_path, 'r:')
DeleteConfirm(yes, ok) ==
    /\ pc = "idle"
    /\ btn_delete
    /\ currentRow >= 1
    /\ LET arc == line_manage_path
           started == [NoOp EXCEPT !.kind = "delete", !.path = arc,
                                   !.name = table_files[currentRow][1],
                                   !.pre = fs[arc]]
       IN  IF ~yes THEN
               /\ msgs' = << >>
               /\ op' = [started EXCEPT !.kind = "delete-declined"]
               /\ pc' = "idle"
           ELSE IF fs[arc].kind # "tar" \/ ~ok THEN
               /\ msgs' = <<"RepackFailed">>
               /\ op' = started
               /\ pc' = "idle"
           ELSE
               /\ msgs' = << >>
               /\ op' = [started EXCEPT !.members = fs[arc].entries, !.idx = 1]
               /\ pc' = "del_temp"
    /\ UNCHANGED << fs, line_manage_path, table_files, currentRow, btn_delete >>
    /\ UNCHANGED << workerVars, createVars, extractVars >>

\* tarfile.open(temp_path, 'w')
DeleteOpenTemp(ok) ==
    /\ pc = "del_temp"
    /\ IF ok THEN
           /\ fs' = [fs EXCEPT ![TempPath(op.path)] =
                        [kind |-> "tar", entries |-> << >>, data |-> 0]]
           /\ pc' = "del_copy"
           /\ msgs' = msgs
       ELSE
           /\ fs' = fs
           /\ pc' = "idle"
           /\ msgs' = <<"RepackFailed">>
    /\ UNCHANGED << line_manage_path, table_files, currentRow, btn_delete, op >>
    /\ UNCHANGED << workerVars, createVars, extractVars >>

\* one turn of the loop over tf_in.getmembers()
DeleteCopy(ok) ==
    /\ pc = "del_copy"
    /\ op.idx <= Len(op.members)
    /\ LET member == op.members[op.idx]
       IN  IF ~KeepMember(member, op.name) THEN
               /\ fs' = fs
               /\ op' = [op EXCEPT !.idx = @ + 1]
               /\ pc' = pc
               /\ msgs' = msgs
           ELSE IF ok THEN
               /\ fs' = [fs EXCEPT ![TempPath(op.path)].entries = Append(@, member)]
               /\ op' = [op EXCEPT !.idx = @ + 1]
               /\ pc' = pc
               /\ msgs' = msgs
           ELSE
               /\ fs' = fs
               /\ op' = op
               /\ pc' = "idle"
               /\ msgs' = <<"RepackFailed">>
    /\ UNCHANGED << line_manage_path, table_files, currentRow, btn_delete >>
    /\ UNCHANGED << workerVars, createVars, extractVars >>

\* both archives are closed; shutil.move(temp_path, arc_path), the success box
\* and load_archive_for_management
DeleteMove(ok, reload) ==
    /\ pc = "del_copy"
    /\ op.idx > Len(op.members)
    /\ reload \in DialogPaths
    /\ pc' = "idle"
    /\ op' = op
    /\ IF ok THEN
           /\ fs' = [p \in DOMAIN fs |->
                        IF p = op.path THEN fs[TempPath(op.path)]
                        ELSE IF p = TempPath(op.path) THEN NoFile
                        ELSE fs[p]]
           /\ msgs' = <<"Deleted">> \o LoadMsgs(reload, fs')
           /\ LoadArchive(reload, fs')
       ELSE
           /\ fs' = fs
           /\ msgs' = <<"RepackFailed">>
           /\ UNCHANGED << line_manage_path, table_files, currentRow, btn_delete,
                           worker, wstate, lbl_checksum >>
    /\ UNCHANGED << emits, queue >>
    /\ UNCHANGED << createVars, extractVars >>

-----------------------------------------------------------------------------
(* The Manage tab as a state machine *)

NoCreated ==
    [outcome |-> "none", files |-> << >>, fmt |-> "Tar", dest |-> NoPath,
     pwd |-> FALSE, recursive |-> FALSE, exclude |-> << >>, tier |-> 0,
     wrote |-> FALSE, tried |-> << >>]

CreateIdle ==
    /\ file_list = << >>
    /\ combo_format = "Tar"
    /\ destination_path = NoPath
    /\ HAS_PYZIPPER = FALSE
    /\ created = NoCreated

ExtractIdle ==
    /\ line_extract_src = NoPath
    /\ line_extract_exclude = << >>
    /\ destdir = {}
    /\ stage = "idle"

ManageIdle ==
    /\ line_manage_path = NoPath
    /\ table_files = << >>
    /\ currentRow = 0
    /\ btn_delete = TRUE
    /\ pc = "idle"
    /\ op = NoOp

WorkerIdle ==
    /\ worker = 0
    /\ wstate = [g \in Gens |-> "none"]
    /\ emits = [g \in Gens |-> 0]
    /\ queue = << >>
    /\ lbl_checksum = [kind |-> "na", gen |-> 0]

InitManage ==
    /\ fs = ManageFs0
    /\ msgs = << >>
    /\ ManageIdle
    /\ WorkerIdle
    /\ CreateIdle
    /\ ExtractIdle

\* the UI thread's handlers of the Manage tab
NextManage ==
    \/ \E f \in LoadablePaths : Load(f)
    \/ \E r \in 1..MaxEntries : SelectRow(r)
    \/ \E f \in AppendFiles, readable \in BOOLEAN, reload \in DialogPaths :
            AppendToArchive(f, readable, reload)
    \/ \E yes \in BOOLEAN, ok \in BOOLEAN : DeleteConfirm(yes, ok)
    \/ \E ok \in BOOLEAN : DeleteOpenTemp(ok)
    \/ \E ok \in BOOLEAN : DeleteCopy(ok)
    \/ \E ok \in BOOLEAN, reload \in DialogPaths : DeleteMove(ok, reload)

\* The archive operations of the Manage tab.  The checksum thread touches none
\* of fs, msgs and the Manage widgets, so its steps are left to SpecChecksum.
SpecManage == InitManage /\ [][NextManage]_vars

\* loading archives, with the checksum thread and the delivery of its signal
NextChecksum ==
    \/ \E f \in LoadablePaths : Load(f)
    \/ \E g \in Gens, kind \in {"digest", "error"} : WorkerEmit(g, kind)
    \/ \E g \in Gens : WorkerFinish(g)
    \/ Deliver

SpecChecksum == InitManage /\ [][NextChecksum]_vars

-----------------------------------------------------------------------------
(* Create tab: FORMAT_CONFIG and the files the user can put in the list *)

Formats == {"Tar", "Zip", "Gzip", "Bzip2", "Xz", "7z", "Rar"}

\* FORMAT_CONFIG[fmt]["multi"]
Multi(fmt) == fmt \in {"Tar", "Zip", "7z", "Rar"}

\* FORMAT_CONFIG[fmt]["ext"]
Ext(fmt) ==
    CASE fmt = "Tar" -> ".tar"
      [] fmt = "Zip" -> ".zip"
      [] fmt = "Gzip" -> ".gz"
      [] fmt = "Bzip2" -> ".bz2"
      [] fmt = "Xz" -> ".xz"
      [] fmt = "7z" -> ".7z"
      [] fmt = "Rar" -> ".rar"

\* the name the save dialog proposes: archive{ext}
DestOf(fmt) == <<"/", "o", "/", "archive", Ext(fmt)>>

DestPaths == {DestOf(fmt) : fmt \in Formats}

\* the user's files: /t/a.txt, /t/b.tmp, /u/a.txt and the directory /t/d holding
\* x.txt, y.tmp and the subdirectory s with z.txt
FileA == <<"/", "t", "/", "a", ".txt">>
FileB == <<"/", "t", "/", "b", ".tmp">>
FileU == <<"/", "u", "/", "a", ".txt">>
DirD == <<"/", "t", "/", "d">>
DirS == DirD \o <<"/", "s">>
FileX == DirD \o <<"/", "x", ".txt">>
FileY == DirD \o <<"/", "y", ".tmp">>
FileZ == DirS \o <<"/", "z", ".txt">>

TreeFiles == {FileA, FileB, FileU, FileX, FileY, FileZ}
TreeDirs == {DirD, DirS}

\* os.path.isfile / os.path.isdir
IsFile(p) == p \in TreeFiles
IsDir(p) == p \in TreeDirs

\* the bytes of a file, as a number
DataOf(p) ==
    CASE p = FileA -> 1
      [] p = FileB -> 2
      [] p = FileU -> 3
      [] p = FileX -> 4
      [] p = FileY -> 5
      [] p = FileZ -> 6
      [] OTHER -> 0

\* sorted(os.listdir(p)), as paths
Listdir(p) ==
    CASE p = DirD -> <<DirS, FileX, FileY>>
      [] p = DirS -> <<FileZ>>
      [] OTHER -> << >>

\* what the browse dialog offers (files) and what can be dropped (anything)
BrowseInputs == {FileA, FileB, FileU}
DropInputs == {FileA, FileB, FileU, DirD}

\* the lists of one or two distinct paths of S
Picks(S) ==
    {<<x>> : x \in S} \cup {q \in S \X S : q[1] # q[2]}

\* the patterns typed into an exclude field
Excludes == {<< >>, <<".tmp">>}

-----------------------------------------------------------------------------
(* Create tab: the writers *)

\* a filter that never excludes
ShouldExcludeNever(filename, exclude_ext) == FALSE

\* _should_exclude
ShouldExclude(filename, exclude_ext) ==
    IF exclude_ext = << >> THEN FALSE ELSE EndsWith(filename, exclude_ext)

RECURSIVE Concat(_)
\* the concatenation of a sequence of sequences
Concat(ss) == IF ss = << >> THEN << >> ELSE Head(ss) \o Concat(Tail(ss))

RECURSIVE WalkFiles(_)
\* os.walk(d), top down: the files of d, then those of its subdirectories
WalkFiles(d) ==
    LET here == SelectSeq(Listdir(d), IsFile)
        subs == SelectSeq(Listdir(d), IsDir)
    IN  here \o Concat([i \in 1..Len(subs) |-> WalkFiles(subs[i])])

\* the entries _write_to_zip writes for one input path
ZipEntriesOf(f, recursive, exclude) ==
    IF IsFile(f) THEN
        IF ~ShouldExclude(f, exclude) THEN <<F(Basename(f), DataOf(f))>> ELSE << >>
    ELSE IF IsDir(f) THEN
        IF recursive THEN
            LET all == WalkFiles(f)
                kept == SelectSeq(all, LAMBDA q : ~ShouldExclude(Basename(q), exclude))
            IN  [i \in 1..Len(kept) |->
                    F(Relpath(kept[i], Dirname(f)), DataOf(kept[i]))]
        ELSE <<D(Basename(f) \o <<"/">>)>>
    ELSE << >>

\* _write_to_zip
WriteToZip(files, recursive, exclude) ==
    Concat([i \in 1..Len(files) |-> ZipEntriesOf(files[i], recursive, exclude)])

\* tar_filter of create_tar, for the input f: TRUE when the member is dropped
TarFilterDrops(f, arcname, isdir, recursive, exclude) ==
    \/ ~recursive /\ isdir /\ arcname # Basename(f)
    \/ ShouldExclude(arcname, exclude)

RECURSIVE TarAdd(_, _, _, _, _)
\* tf.add(path, arcname, filter=tar_filter): the member, then a directory's
\* children in sorted order
TarAdd(f, path, arcname, recursive, exclude) ==
    IF TarFilterDrops(f, arcname, IsDir(path), recursive, exclude) THEN << >>
    ELSE IF IsDir(path) THEN
        LET kids == Listdir(path)
        IN  <<D(arcname)>> \o
            Concat([i \in 1..Len(kids) |->
                TarAdd(f, kids[i], Join(arcname, Basename(kids[i])),
                       recursive, exclude)])
    ELSE <<F(arcname, DataOf(path))>>

\* create_tar
CreateTar(files, recursive, exclude) ==
    Concat([i \in 1..Len(files) |->
        IF ShouldExclude(files[i], exclude) THEN << >>
        ELSE TarAdd(files[i], files[i], Basename(files[i]), recursive, exclude)])

\* every entry of a zip written with a password is encrypted, directories apart
Encrypted(entries) ==
    [i \in 1..Len(entries) |->
        IF entries[i].isdir THEN entries[i] ELSE [entries[i] EXCEPT !.enc = TRUE]]

RECURSIVE ZipToolAdd(_)
\* zip -r: a path is stored without its leading "/", a directory as "name/",
\* followed by what it holds
ZipToolAdd(path) ==
    IF IsDir(path) THEN
        LET kids == Listdir(path)
        IN  <<D(Tail(path) \o <<"/">>)>> \o
            Concat([i \in 1..Len(kids) |-> ZipToolAdd(kids[i])])
    ELSE <<F(Tail(path), DataOf(path))>>

\* the archive the system zip command writes: cmd has no exclude argument;
\* -r stores the paths, -j the base names of the files and no directory
ExternalZip(files, recursive) ==
    IF recursive THEN Concat([i \in 1..Len(files) |-> ZipToolAdd(files[i])])
    ELSE LET plain == SelectSeq(files, IsFile)
         IN  [i \in 1..Len(plain) |-> F(Basename(plain[i]), DataOf(plain[i]))]

-----------------------------------------------------------------------------
(* Create tab: the handlers *)

RECURSIVE AddItems(_, _)
\* add_file_item for each path in turn: a path already listed is skipped
AddItems(list, paths) ==
    IF paths = << >> THEN list
    ELSE AddItems(IF \E i \in 1..Len(list) : list[i] = Head(paths)
                  THEN list ELSE Append(list, Head(paths)),
                  Tail(paths))

\* an add_files_action without the test of FORMAT_CONFIG[fmt]["multi"]
AddFilesActionUnchecked(files) ==
    /\ stage = "edit"
    /\ files \in Picks(BrowseInputs)
    /\ Len(AddItems(file_list, files)) <= MaxFiles
    /\ msgs' = << >>
    /\ file_list' = AddItems(file_list, files)
    /\ UNCHANGED << fs, combo_format, destination_path, HAS_PYZIPPER, created >>
    /\ UNCHANGED << manageVars, workerVars, extractVars >>

\* add_files_action: the "Browse Files" button, the dialog answering files
AddFilesAction(files) ==
    /\ stage = "edit"
    /\ files \in Picks(BrowseInputs)
    /\ IF ~Multi(combo_format) /\ (Len(file_list) > 0 \/ Len(files) > 1) THEN
           /\ msgs' = <<"OnlyOneInput">>
           /\ file_list' = file_list
       ELSE
           /\ Len(AddItems(file_list, files)) <= MaxFiles
           /\ msgs' = << >>
           /\ file_list' = AddItems(file_list, files)
    /\ UNCHANGED << fs, combo_format, destination_path, HAS_PYZIPPER, created >>
    /\ UNCHANGED << manageVars, workerVars, extractVars >>

\* dropEvent
DropEvent(files) ==
    /\ stage = "edit"
    /\ files \in Picks(DropInputs)
    /\ Len(AddItems(file_list, files)) <= MaxFiles
    /\ msgs' = << >>
    /\ file_list' = AddItems(file_list, files)
    /\ UNCHANGED << fs, combo_format, destination_path, HAS_PYZIPPER, created >>
    /\ UNCHANGED << manageVars, workerVars, extractVars >>

\* remove_selected, the rows sel being selected
RemoveSelected(sel) ==
    /\ stage = "edit"
    /\ sel # {}
    /\ sel \subseteq 1..Len(file_list)
    /\ LET keep == {i \in 1..Len(file_list) : i \notin sel}
           \* the i-th kept row
           Nth(i) == CHOOSE k \in keep : Cardinality({j \in keep : j <= k}) = i
       IN  file_list' = [i \in 1..Cardinality(keep) |-> file_list[Nth(i)]]
    /\ msgs' = << >>
    /\ UNCHANGED << fs, combo_format, destination_path, HAS_PYZIPPER, created >>
    /\ UNCHANGED << manageVars, workerVars, extractVars >>

\* the "Clear All" button: file_list.clear
ClearAll ==
    /\ stage = "edit"
    /\ file_list # << >>
    /\ file_list' = << >>
    /\ msgs' = << >>
    /\ UNCHANGED << fs, combo_format, destination_path, HAS_PYZIPPER, created >>
    /\ UNCHANGED << manageVars, workerVars, extractVars >>

\* the combo box changes to text, and on_format_changed runs
OnFormatChanged(text) ==
    /\ stage = "edit"
    /\ text \in Formats
    /\ text # combo_format
    /\ combo_format' = text
    /\ IF ~Multi(text) /\ Len(file_list) > 1 THEN
           /\ msgs' = <<"Restriction">>
           /\ file_list' = << >>
       ELSE
           /\ msgs' = << >>
           /\ file_list' = file_list
    /\ UNCHANGED << fs, destination_path, HAS_PYZIPPER, created >>
    /\ UNCHANGED << manageVars, workerVars, extractVars >>

\* set_destination_action, the user accepting the proposed name
SetDestinationAction ==
    /\ stage = "edit"
    /\ destination_path # DestOf(combo_format)
    /\ destination_path' = DestOf(combo_format)
    /\ msgs' = << >>
    /\ UNCHANGED << fs, file_list, combo_format, HAS_PYZIPPER, created >>
    /\ UNCHANGED << manageVars, workerVars, extractVars >>

\* the strategy create_zip runs
ZipTier(pwd) == IF HAS_PYZIPPER /\ pwd THEN 1 ELSE IF pwd THEN 2 ELSE 3

\* a create_zip whose strategies swallow their failure and go on to the next
CreateZipFallThrough(files, pwd, recursive, exclude, zipInstalled, zipRuns, zipWrites) ==
    LET zip(entries) == [kind |-> "zip", entries |-> entries, data |-> 0]
        one == IF HAS_PYZIPPER /\ pwd THEN <<1>> ELSE << >>
        two == IF pwd THEN <<2>> ELSE << >>
    IN  IF HAS_PYZIPPER /\ pwd /\ zipWrites THEN
            [raised |-> FALSE, wrote |-> TRUE, tried |-> <<1>>,
             file |-> zip(Encrypted(WriteToZip(files, recursive, exclude)))]
        ELSE IF pwd /\ zipInstalled /\ zipRuns THEN
            [raised |-> FALSE, wrote |-> TRUE, tried |-> one \o <<2>>,
             file |-> zip(Encrypted(ExternalZip(files, recursive)))]
        ELSE IF zipWrites THEN
            [raised |-> FALSE, wrote |-> TRUE, tried |-> one \o two \o <<3>>,
             file |-> zip(WriteToZip(files, recursive, exclude))]
        ELSE
            [raised |-> TRUE, wrote |-> FALSE, tried |-> one \o two \o <<3>>,
             file |-> NoFile]

\* create_zip: [raised, wrote, file] and the strategies it tried, in order.
\* zipWrites: the zip library can open the destination for writing;
\* zipInstalled, zipRuns: "zip -h" is found, and the zip commands exit with 0
CreateZip(files, pwd, recursive, exclude, zipInstalled, zipRuns, zipWrites) ==
    LET zip(entries) == [kind |-> "zip", entries |-> entries, data |-> 0]
        failed(n) == [raised |-> TRUE, wrote |-> FALSE, tried |-> <<n>>,
                      file |-> NoFile]
    IN  IF HAS_PYZIPPER /\ pwd THEN
            IF ~zipWrites THEN failed(1)
            ELSE [raised |-> FALSE, wrote |-> TRUE, tried |-> <<1>>,
                  file |-> zip(Encrypted(WriteToZip(files, recursive, exclude)))]
        ELSE IF pwd THEN
            IF ~zipInstalled \/ ~zipRuns THEN failed(2)
            ELSE [raised |-> FALSE, wrote |-> TRUE, tried |-> <<2>>,
                  file |-> zip(Encrypted(ExternalZip(files, recursive)))]
        ELSE
            IF ~zipWrites THEN failed(3)
            ELSE [raised |-> FALSE, wrote |-> TRUE, tried |-> <<3>>,
                  file |-> zip(WriteToZip(files, recursive, exclude))]

\* the stream format process_archive_action hands to create_single_compress
StreamKind(fmt) ==
    CASE fmt = "Gzip" -> "gz"
      [] fmt = "Bzip2" -> "bz2"
      [] fmt = "Xz" -> "xz"

\* create_single_compress: open(input_file, 'rb') raises on a directory, before
\* the destination is opened
CreateSingleCompress(input_file, fmt) ==
    IF ~IsFile(input_file) THEN
        [raised |-> TRUE, wrote |-> FALSE, tried |-> << >>, file |-> NoFile]
    ELSE [raised |-> FALSE, wrote |-> TRUE, tried |-> << >>,
          file |-> [kind |-> StreamKind(fmt), entries |-> << >>,
                    data |-> DataOf(input_file)]]

\* the try block of process_archive_action for the formats it writes itself
Writer(files, fmt, pwd, recursive, exclude, zipInstalled, zipRuns, zipWrites) ==
    IF fmt = "Zip" THEN
        CreateZip(files, pwd, recursive, exclude, zipInstalled, zipRuns, zipWrites)
    ELSE IF fmt = "Tar" THEN
        [raised |-> FALSE, wrote |-> TRUE, tried |-> << >>,
         file |-> [kind |-> "tar", entries |-> CreateTar(files, recursive, exclude),
                   data |-> 0]]
    ELSE CreateSingleCompress(files[1], fmt)

\* process_archive_action: the widgets it reads (password, recursive, exclude)
\* and the state of the system zip command are its inputs
ProcessArchiveAction(pwd, recursive, exclude, zipInstalled, zipRuns, zipWrites) ==
    /\ stage = "edit"
    /\ LET request == [outcome |-> "none", files |-> file_list, fmt |-> combo_format,
                       dest |-> destination_path, pwd |-> pwd,
                       recursive |-> recursive, exclude |-> exclude,
                       tier |-> IF combo_format = "Zip" THEN ZipTier(pwd) ELSE 0,
                       wrote |-> FALSE, tried |-> << >>]
       IN  IF Len(file_list) = 0 THEN
               /\ msgs' = <<"NoFiles">>
               /\ UNCHANGED << fs, file_list, destination_path, stage, created >>
           ELSE IF destination_path = NoPath THEN
               /\ msgs' = <<"NoDestination">>
               /\ UNCHANGED << fs, file_list, destination_path, stage, created >>
           ELSE IF combo_format \in {"7z", "Rar"} THEN
               /\ msgs' = <<"Delegated">>
               /\ created' = [request EXCEPT !.outcome = "Delegated"]
               /\ stage' = "created"
               /\ UNCHANGED << fs, file_list, destination_path >>
           ELSE
               LET w == Writer(file_list, combo_format, pwd, recursive, exclude,
                               zipInstalled, zipRuns, zipWrites)
               IN  /\ fs' = IF w.wrote
                             THEN [fs EXCEPT ![destination_path] = w.file]
                             ELSE fs
                   /\ stage' = "created"
                   /\ IF w.raised THEN
                          /\ msgs' = <<"Error">>
                          /\ created' = [request EXCEPT !.outcome = "Error",
                                                        !.wrote = w.wrote,
                                                        !.tried = w.tried]
                          /\ UNCHANGED << file_list, destination_path >>
                      ELSE
                          /\ msgs' = <<"Success">>
                          /\ created' = [request EXCEPT !.outcome = "Success",
                                                        !.wrote = w.wrote,
                                                        !.tried = w.tried]
                          /\ file_list' = << >>
                          /\ destination_path' = NoPath
    /\ UNCHANGED << combo_format, HAS_PYZIPPER, line_extract_src,
                    line_extract_exclude, destdir >>
    /\ UNCHANGED << manageVars, workerVars >>

-----------------------------------------------------------------------------
(* Extract tab: run_extraction *)

\* a dispatch that tests the suffixes in the order .zip, .gz, .tar
DispatchGzFirst(src) ==
    IF EndsWith(src, <<".zip">>) THEN "zip"
    ELSE IF EndsWith(src, <<".gz">>) THEN "gz"
    ELSE IF EndsWith(src, <<".tar">>) THEN "tar"
    ELSE "none"

\* the branch of the if / elif chain run_extraction takes
Dispatch(src) ==
    IF EndsWith(src, <<".zip">>) THEN "zip"
    ELSE IF EndsWith(src, <<".tar">>) THEN "tar"
    ELSE IF EndsWith(src, <<".tar", ".gz">>) \/ EndsWith(src, <<".tgz">>) THEN "targz"
    ELSE IF EndsWith(src, <<".gz">>) THEN "gz"
    ELSE "none"

\* members = [m for m in ... if not self._should_exclude(name, exclude)]
Members(entries, exclude) ==
    SelectSeq(entries, LAMBDA m : ~ShouldExclude(m.name, exclude))

\* the path a member is written to: a zip directory entry "d/" becomes d
TargetOf(m) ==
    IF m.name # << >> /\ m.name[Len(m.name)] = "/"
    THEN SubSeq(m.name, 1, Len(m.name) - 1)
    ELSE m.name

RECURSIVE WriteMembers(_, _)
\* extractall: each member in turn, a later one replacing an earlier one of
\* the same path
WriteMembers(dir, members) ==
    IF members = << >> THEN dir
    ELSE LET m == Head(members)
             e == [path |-> TargetOf(m), isdir |-> m.isdir, data |-> m.data]
         IN  WriteMembers({x \in dir : x.path # e.path} \cup {e}, Tail(members))

\* the first member zf.extractall cannot open without a password, 0 if none
FirstEncrypted(members) ==
    LET at == {i \in 1..Len(members) : members[i].enc}
    IN  IF at = {} THEN 0 ELSE CHOOSE i \in at : \A j \in at : i <= j

\* os.path.basename(src).replace('.gz', '')
GzOutName(src) == SelectSeq(Basename(src), LAMBDA t : t # ".gz")

\* the try block of run_extraction: what it writes into the (empty) destination
\* directory and the message boxes it shows, the last one included
Extraction(src, file, exclude) ==
    LET branch == Dispatch(src)
        members == Members(file.entries, exclude)
    IN  IF branch = "zip" THEN
            IF file.kind # "zip" THEN [written |-> {}, msgs |-> <<"Error">>]
            ELSE IF FirstEncrypted(members) # 0 THEN
                [written |-> WriteMembers({},
                                SubSeq(members, 1, FirstEncrypted(members) - 1)),
                 msgs |-> <<"EncryptedZip", "Success">>]
            ELSE [written |-> WriteMembers({}, members), msgs |-> <<"Success">>]
        ELSE IF branch \in {"tar", "targz"} THEN
            IF file.kind # branch THEN [written |-> {}, msgs |-> <<"Error">>]
            ELSE [written |-> WriteMembers({}, members), msgs |-> <<"Success">>]
        ELSE IF branch = "gz" THEN
            IF file.kind \notin {"gz", "targz"} THEN
                [written |-> {[path |-> GzOutName(src), isdir |-> FALSE, data |-> 0]},
                 msgs |-> <<"Error">>]
            ELSE
                [written |-> {[path |-> GzOutName(src), isdir |-> FALSE,
                               data |-> file.data]},
                 msgs |-> <<"Success">>]
        ELSE [written |-> {}, msgs |-> <<"Success">>]

\* browse_extract_source, or typing into the source field
BrowseExtractSource(src) ==
    /\ stage # "edit"
    /\ src \in DOMAIN fs
    /\ src # line_extract_src
    /\ line_extract_src' = src
    /\ stage' = "chosen"
    /\ UNCHANGED << fs, msgs, destdir, line_extract_exclude >>
    /\ UNCHANGED << manageVars, workerVars, createVars >>

\* run_extraction into a destination directory that is empty, exclude being the
\* text of the exclude field
RunExtraction(exclude) ==
    /\ stage # "edit"
    /\ line_extract_src # NoPath
    /\ exclude \in Excludes
    /\ line_extract_exclude' = exclude
    /\ stage' = "extracted"
    /\ IF fs[line_extract_src] = NoFile THEN
           /\ msgs' = <<"MissingInfo">>
           /\ destdir' = {}
       ELSE
           LET x == Extraction(line_extract_src, fs[line_extract_src], exclude)
           IN  /\ msgs' = x.msgs
               /\ destdir' = x.written
    /\ UNCHANGED << fs, line_extract_src >>
    /\ UNCHANGED << manageVars, workerVars, createVars >>

-----------------------------------------------------------------------------
(* The Create tab, followed by the extraction of the archive it wrote *)

InitCreate ==
    /\ fs = [p \in DestPaths |-> NoFile]
    /\ msgs = << >>
    /\ ManageIdle
    /\ WorkerIdle
    /\ file_list = << >>
    /\ combo_format = "Tar"
    /\ destination_path = NoPath
    /\ HAS_PYZIPPER \in BOOLEAN
    /\ created = NoCreated
    /\ line_extract_src = NoPath
    /\ line_extract_exclude = << >>
    /\ destdir = {}
    /\ stage = "edit"

NextCreate ==
    \/ \E files \in Picks(BrowseInputs) : AddFilesAction(files)
    \/ \E files \in Picks(DropInputs) : DropEvent(files)
    \/ \E sel \in SUBSET (1..MaxFiles) : RemoveSelected(sel)
    \/ ClearAll
    \/ \E text \in Formats : OnFormatChanged(text)
    \/ SetDestinationAction
    \/ \E pwd \in BOOLEAN, recursive \in BOOLEAN, exclude \in Excludes,
           zipInstalled \in BOOLEAN, zipRuns \in BOOLEAN, zipWrites \in BOOLEAN :
            ProcessArchiveAction(pwd, recursive, exclude, zipInstalled, zipRuns,
                                 zipWrites)
    \/ \E src \in {created.dest} : created.wrote /\ BrowseExtractSource(src)
    \/ \E exclude \in Excludes : RunExtraction(exclude)

\* One session of the Create tab up to its first archive, then the Extract tab
\* on that archive.
SpecCreate == InitCreate /\ [][NextCreate]_vars

\* the input list filled by the buttons alone, with nothing dropped
NextBrowse ==
    \/ \E files \in Picks(BrowseInputs) : AddFilesAction(files)
    \/ \E sel \in SUBSET (1..MaxFiles) : RemoveSelected(sel)
    \/ ClearAll
    \/ \E text \in Formats : OnFormatChanged(text)

SpecBrowse == InitCreate /\ [][NextBrowse]_vars

-----------------------------------------------------------------------------
(* The Extract tab on archives that are already on disk *)

XZip == <<"/", "x", "/", "p", ".zip">>
XEncZip == <<"/", "x", "/", "e", ".zip">>
XTar == <<"/", "x", "/", "t", ".tar">>
XTarGz == <<"/", "x", "/", "g", ".tar", ".gz">>
XTgz == <<"/", "x", "/", "h", ".tgz">>
XGz == <<"/", "x", "/", "s", ".txt", ".gz">>
XBz2 == <<"/", "x", "/", "c", ".txt", ".bz2">>
XXz == <<"/", "x", "/", "c", ".txt", ".xz">>
XText == <<"/", "x", "/", "n", ".txt">>
\* a plain tar saved under a .zip name
XTarAsZip == <<"/", "x", "/", "w", ".zip">>
\* a text file saved under a .gz name
XTextAsGz == <<"/", "x", "/", "n", ".gz">>
XMissing == <<"/", "x", "/", "gone", ".zip">>

ExtractPaths ==
    {XZip, XEncZip, XTar, XTarGz, XTgz, XGz, XBz2, XXz, XText, XTarAsZip, XTextAsGz,
     XMissing}

TwoFiles == <<F(<<"a", ".txt">>, 1), F(<<"b", ".tmp">>, 2)>>

ExtractFs0 ==
    [p \in ExtractPaths |->
        CASE p = XZip -> [kind |-> "zip", entries |-> TwoFiles, data |-> 0]
          [] p = XEncZip ->
                [kind |-> "zip", data |-> 0,
                 entries |-> <<D(<<"d", "/">>)>> \o Encrypted(TwoFiles)]
          [] p = XTar -> [kind |-> "tar", entries |-> TwoFiles, data |-> 0]
          [] p = XTarGz -> [kind |-> "targz", entries |-> TwoFiles, data |-> 0]
          [] p = XTgz -> [kind |-> "targz", entries |-> TwoFiles, data |-> 0]
          [] p = XGz -> [kind |-> "gz", entries |-> << >>, data |-> 7]
          [] p = XBz2 -> [kind |-> "bz2", entries |-> << >>, data |-> 8]
          [] p = XXz -> [kind |-> "xz", entries |-> << >>, data |-> 8]
          [] p = XText -> [kind |-> "plain", entries |-> << >>, data |-> 9]
          [] p = XTarAsZip -> [kind |-> "tar", entries |-> TwoFiles, data |-> 0]
          [] p = XTextAsGz -> [kind |-> "plain", entries |-> << >>, data |-> 9]
          [] OTHER -> NoFile]

InitExtract ==
    /\ fs = ExtractFs0
    /\ msgs = << >>
    /\ ManageIdle
    /\ WorkerIdle
    /\ CreateIdle
    /\ ExtractIdle

NextExtract ==
    \/ \E src \in ExtractPaths : BrowseExtractSource(src)
    \/ \E exclude \in Excludes : RunExtraction(exclude)

SpecExtract == InitExtract /\ [][NextExtract]_vars

-----------------------------------------------------------------------------
(* Claims about the Create and Extract tabs *)

\* the message boxes shown, as a set
Shown == {msgs[i] : i \in 1..Len(msgs)}

\* C3: a request pairing a single-input format with two or more inputs is
\* refused, and writes no output file.
C3_SingleInputEnforced ==
    (created.outcome # "none" /\ ~Multi(created.fmt) /\ Len(created.files) > 1)
        => (created.outcome = "Error" /\ ~created.wrote)

\* C4: an archive written by Tar or Zip with an exclude pattern holds no entry
\* whose name ends with the pattern.
C4_ExclusionOnEveryPath ==
    (created.outcome = "Success" /\ created.fmt \in {"Tar", "Zip"}
                                 /\ created.exclude # << >>)
        => \A i \in 1..Len(fs[created.dest].entries) :
              ~EndsWith(fs[created.dest].entries[i].name, created.exclude)

\* the same, for the writers that run in process (Tar, Zip strategies 1 and 3)
C4_ExclusionInProcess ==
    (created.outcome = "Success" /\ created.fmt \in {"Tar", "Zip"}
                                 /\ created.tier # 2
                                 /\ created.exclude # << >>)
        => \A i \in 1..Len(fs[created.dest].entries) :
              ~EndsWith(fs[created.dest].entries[i].name, created.exclude)

\* the source of the extraction that ran last has none of the known suffixes
UnknownSuffix(src) ==
    /\ ~EndsWith(src, <<".tar", ".gz">>)
    /\ ~EndsWith(src, <<".tgz">>)
    /\ ~EndsWith(src, <<".gz">>)
    /\ ~EndsWith(src, <<".tar">>)
    /\ ~EndsWith(src, <<".zip">>)

\* C5: extracting an existing file of unknown suffix reports a failure, no
\* success, and writes nothing.
C5_UnknownSuffixFails ==
    (stage = "extracted" /\ fs[line_extract_src] # NoFile
                         /\ UnknownSuffix(line_extract_src))
        => /\ msgs # << >>
           /\ "Success" \notin Shown
           /\ destdir = {}

\* a zip all of whose files are encrypted
PasswordProtected(file) ==
    /\ file.kind = "zip"
    /\ \E i \in 1..Len(file.entries) : ~file.entries[i].isdir
    /\ \A i \in 1..Len(file.entries) :
          ~file.entries[i].isdir => file.entries[i].enc

\* C6: extracting a password-protected zip reports a failure and no success.
C6_EncryptedZipFails ==
    (stage = "extracted" /\ EndsWith(line_extract_src, <<".zip">>)
                         /\ PasswordProtected(fs[line_extract_src]))
        => /\ msgs # << >>
           /\ "Success" \notin Shown

\* the files below directory d, at any depth
FilesBelow(d) ==
    {p \in TreeFiles : Len(p) > Len(d) + 1 /\ SubSeq(p, 1, Len(d) + 1) = d \o <<"/">>}

\* the files a request names: the file inputs, and with recursive the files
\* below the directory inputs; each with the parent of its input
Named(files, recursive) ==
    {[file |-> files[i], parent |-> Dirname(files[i])] :
        i \in {j \in 1..Len(files) : files[j] \in TreeFiles}}
    \cup
    UNION {{[file |-> p, parent |-> Dirname(files[i])] : p \in FilesBelow(files[i])} :
        i \in {j \in 1..Len(files) : files[j] \in TreeDirs /\ recursive}}

\* the non-excluded files of a request, under their relative paths
Expected(files, recursive, exclude) ==
    {[path |-> SubSeq(n.file, Len(n.parent) + 2, Len(n.file)),
      isdir |-> FALSE, data |-> DataOf(n.file)] :
        n \in {k \in Named(files, recursive) :
                  exclude = << >> \/ ~EndsWith(Basename(k.file), exclude)}}

\* the files (not the directories) of the destination directory
ExtractedFiles == {x \in destdir : ~x.isdir}

\* the archive created last was extracted last, with no exclude pattern
RoundTripDone ==
    /\ stage = "extracted"
    /\ created.outcome = "Success"
    /\ line_extract_src = created.dest
    /\ line_extract_exclude = << >>

\* C10, as stated: for Tar, Zip, Gzip, Bzip2 and Xz the extraction of the created
\* archive yields exactly the non-excluded input files.
C10_RoundTripAllFormats ==
    (RoundTripDone /\ created.fmt \in {"Tar", "Zip", "Gzip", "Bzip2", "Xz"})
        => ExtractedFiles = Expected(created.files, created.recursive, created.exclude)

\* no two inputs of the request share a base name
DistinctBasenames(files) ==
    \A i, j \in 1..Len(files) : i # j => Basename(files[i]) # Basename(files[j])

\* a directory is among the inputs
HasDirectory(files) == \E i \in 1..Len(files) : files[i] \in TreeDirs

\* the requests whose archives come back whole: Tar, and Zip without password,
\* inputs of distinct base names, and for Tar directories only with recursive
Restorable(r) ==
    /\ r.fmt \in {"Tar", "Zip"}
    /\ r.fmt = "Zip" => ~r.pwd
    /\ DistinctBasenames(r.files)
    /\ (r.fmt = "Tar" /\ HasDirectory(r.files)) => r.recursive

\* C10, amended: when the archive is saved under its format's extension and
\* extracted with no exclude pattern into an empty directory, a restorable Tar
\* or Zip request yields exactly its non-excluded input files, under their paths
\* relative to the parent of their input and with their contents; Gzip yields
\* the content of its input under the archive's name without ".gz"; Bzip2, Xz
\* and a Zip written with a password yield no file.
C10_RoundTripTarZip ==
    (RoundTripDone /\ EndsWith(created.dest, <<Ext(created.fmt)>>)) =>
        /\ Restorable(created) =>
              /\ msgs = <<"Success">>
              /\ ExtractedFiles =
                    Expected(created.files, created.recursive, created.exclude)
        /\ created.fmt = "Gzip" =>
              destdir = {[path |-> <<"archive">>, isdir |-> FALSE,
                          data |-> DataOf(created.files[1])]}
        /\ created.fmt \in {"Bzip2", "Xz"} => destdir = {}
        /\ (created.fmt = "Zip" /\ created.pwd) => ExtractedFiles = {}

\* C10: a recursive Zip of a.txt and the directory d with exclude .tmp was
\* extracted: d/s/z.txt is back and d/y.tmp is not
C10_Witness ==
    /\ RoundTripDone
    /\ created.fmt = "Zip"
    /\ created.files = <<FileA, DirD>>
    /\ created.recursive
    /\ created.exclude = <<".tmp">>
    /\ destdir = {[path |-> <<"a", ".txt">>, isdir |-> FALSE, data |-> 1],
                  [path |-> <<"d", "/", "x", ".txt">>, isdir |-> FALSE, data |-> 4],
                  [path |-> <<"d", "/", "s", "/", "z", ".txt">>, isdir |-> FALSE,
                   data |-> 6]}

\* the files of the archive are all encrypted
AllEncrypted(file) ==
    \A i \in 1..Len(file.entries) :
        ~file.entries[i].isdir => file.entries[i].enc

\* C12: a Zip request tries exactly one strategy: 1 iff a password is given and
\* pyzipper is there, 2 iff a password is given and pyzipper is missing, 3 iff
\* no password is given; when that strategy fails the request ends with the
\* error box alone, and an archive written for a request with a password holds
\* only encrypted files.
C12_OneTierPerCall ==
    (created.fmt = "Zip" /\ created.outcome \in {"Success", "Error"}) =>
        /\ Len(created.tried) = 1
        /\ created.tried[1] = 1 <=> (created.pwd /\ HAS_PYZIPPER)
        /\ created.tried[1] = 2 <=> (created.pwd /\ ~HAS_PYZIPPER)
        /\ created.tried[1] = 3 <=> ~created.pwd
        /\ created.outcome = "Error" => msgs = <<"Error">>
        /\ (created.pwd /\ created.wrote) => AllEncrypted(fs[created.dest])

\* C12: a request with a password and without pyzipper whose zip command failed:
\* strategy 2 alone was tried and the destination was not written
C12_Witness ==
    /\ created.fmt = "Zip"
    /\ created.pwd
    /\ ~HAS_PYZIPPER
    /\ created.outcome = "Error"
    /\ created.tried = <<2>>
    /\ fs[created.dest] = NoFile

\* a request with a password served by pyzipper
C12_TierOneReached ==
    /\ created.fmt = "Zip"
    /\ created.outcome = "Success"
    /\ created.tried = <<1>>
    /\ Len(fs[created.dest].entries) >= 1
    /\ AllEncrypted(fs[created.dest])

\* the names of the entries of the archive created last
CreatedNames ==
    {fs[created.dest].entries[i].name : i \in 1..Len(fs[created.dest].entries)}

\* the directories below directory d, at any depth
DirsBelow(d) ==
    {p \in TreeDirs : Len(p) > Len(d) + 1 /\ SubSeq(p, 1, Len(d) + 1) = d \o <<"/">>}

\* the directory inputs of the request that ran last
DirInputs == {created.files[i] : i \in {j \in 1..Len(created.files) : IsDir(created.files[j])}}

\* C14: a Tar archive created without recursive holds, of a directory input,
\* its own entry and nothing it contains; created with recursive it holds every
\* non-excluded file and directory it contains, under the path relative to the
\* directory's parent.
C14_TarDirectoryEntries ==
    (created.fmt = "Tar" /\ created.outcome = "Success") =>
        \A d \in DirInputs :
            \A p \in FilesBelow(d) \cup DirsBelow(d) :
                LET arcname == Relpath(p, Dirname(d))
                IN  IF created.recursive
                    THEN ShouldExclude(Basename(p), created.exclude)
                            \/ arcname \in CreatedNames
                    ELSE /\ Basename(d) \in CreatedNames
                         /\ arcname \notin CreatedNames

\* the recursive half of C14 alone
C14_TarRecursiveComplete ==
    (created.fmt = "Tar" /\ created.outcome = "Success" /\ created.recursive) =>
        \A d \in DirInputs :
            \A p \in FilesBelow(d) \cup DirsBelow(d) :
                ShouldExclude(Basename(p), created.exclude)
                    \/ Relpath(p, Dirname(d)) \in CreatedNames

\* the decoder chosen by testing .tar.gz / .tgz, then .gz, then .tar, then .zip
PrecedenceDispatch(src) ==
    IF EndsWith(src, <<".tar", ".gz">>) \/ EndsWith(src, <<".tgz">>) THEN "targz"
    ELSE IF EndsWith(src, <<".gz">>) THEN "gz"
    ELSE IF EndsWith(src, <<".tar">>) THEN "tar"
    ELSE IF EndsWith(src, <<".zip">>) THEN "zip"
    ELSE "none"

\* C15: the branch run_extraction took for the source equals the decoder of the
\* precedence order .tar.gz / .tgz, .gz, .tar, .zip, and a gzip-wrapped tar
\* named .tar.gz or .tgz was unpacked member by member, never written out as
\* one decompressed stream.
C15_DispatchPrecedence ==
    (stage = "extracted" /\ fs[line_extract_src] # NoFile) =>
        LET src == line_extract_src
            file == fs[src]
        IN  /\ Dispatch(src) = PrecedenceDispatch(src)
            /\ (PrecedenceDispatch(src) = "targz" /\ file.kind = "targz") =>
                  /\ msgs = <<"Success">>
                  /\ destdir = WriteMembers({}, Members(file.entries,
                                                        line_extract_exclude))

\* C15: g.tar.gz was extracted with exclude .tmp: a.txt is there, b.tmp is not
C15_Witness ==
    /\ stage = "extracted"
    /\ line_extract_src = XTarGz
    /\ line_extract_exclude = <<".tmp">>
    /\ msgs = <<"Success">>
    /\ destdir = {[path |-> <<"a", ".txt">>, isdir |-> FALSE, data |-> 1]}

\* C16: with nothing dropped, the input list holds at most one path whenever
\* the selected format is single-input; a browse-add that is refused and a
\* change to a single-input format with one path or none leave the list as it
\* was, and the "Restriction" box goes with an emptied list.
C16_SingleInputListBounded ==
    /\ [](~Multi(combo_format) => Len(file_list) <= 1)
    /\ [](msgs = <<"Restriction">> => file_list = << >>)
    /\ [][msgs' = <<"OnlyOneInput">> => file_list' = file_list]_vars
    /\ [][(combo_format' # combo_format /\ Len(file_list) <= 1)
            => file_list' = file_list]_vars

\* C16: with Gzip selected and one path listed, a browse-add was refused
C16_Witness ==
    /\ combo_format = "Gzip"
    /\ msgs = <<"OnlyOneInput">>
    /\ Len(file_list) = 1

\* a change to a single-input format emptied a list of two paths
C16_ClearedReached ==
    /\ ~Multi(combo_format)
    /\ msgs = <<"Restriction">>
    /\ file_list = << >>

-----------------------------------------------------------------------------
(* Claims about the Manage tab *)

\* C1: while a repack is under way, and after it has failed at any step (opening
\* the source, creating the temporary archive, copying a member, the move), the
\* archive at the original path is exactly what it was before the operation.
C1_RepackAtomic ==
    (pc # "idle" \/ (op.kind = "delete" /\ msgs = <<"RepackFailed">>))
        => fs[op.path] = op.pre

\* a repack that failed while copying, after it had copied a member
C1_Witness ==
    /\ op.kind = "delete"
    /\ msgs = <<"RepackFailed">>
    /\ fs[op.path].kind = "tar"
    /\ Len(fs[op.path \o <<".tmp">>].entries) >= 1
    /\ op.idx <= Len(op.members)

\* C2: after a successful delete the archive holds the members it had before,
\* in their order, without those named like the deleted one.
C2_DeleteRemovesExactly ==
    (op.kind = "delete" /\ msgs # << >> /\ Head(msgs) = "Deleted")
        => /\ fs[op.path].kind = "tar"
           /\ fs[op.path].entries =
                  SelectSeq(op.pre.entries, LAMBDA m : m.name # op.name)

\* a delete that removed two members of one name and kept the one between them
C2_Witness ==
    /\ op.kind = "delete"
    /\ msgs # << >> /\ Head(msgs) = "Deleted"
    /\ Len(op.pre.entries) = 3
    /\ Len(fs[op.path].entries) = 1
    /\ fs[op.path].entries[1] = op.pre.entries[2]

\* a successful delete of a name the archive does not hold (a stale table row)
C2_AbsentReached ==
    /\ op.kind = "delete"
    /\ msgs # << >> /\ Head(msgs) = "Deleted"
    /\ \A i \in 1..Len(op.pre.entries) : op.pre.entries[i].name # op.name
    /\ fs[op.path] = op.pre

C9_RefusedReached ==
    /\ op.kind = "append"
    /\ op.path = TgzPath
    /\ msgs = <<"UnsupportedForAppend">>

\* the file is neither a zip nor a tar-family archive to the sniffing
Unrecognised(file) == ~IsZipfile(file) /\ ~IsTarfile(file)

\* C11: loading a file that the sniffing recognises neither as a zip nor as a
\* tar-family archive reports that the archive could not be read.
C11_UnreadableReported ==
    (op.kind = "load" /\ Unrecognised(fs[op.path]))
        => "CouldNotRead" \in {msgs[i] : i \in 1..Len(msgs)}

-----------------------------------------------------------------------------
(* Claims about the checksum worker *)

\* C7: the checksum label never shows the result of a worker other than the
\* current one.
C7_NoStaleChecksum ==
    lbl_checksum.kind \in {"digest", "error"} => lbl_checksum.gen = worker

\* C8 as stated: every worker that has ended, by finishing or by being
\* terminated, has reported exactly once.
C8_ReportsExactlyOnce ==
    \A g \in Gens : wstate[g] \in {"finished", "terminated"} => emits[g] = 1

\* C8: no worker reports twice, a worker whose run() returned has reported once,
\* and a worker that ended without a report was terminated by a later load.
C8_ReportsOnceUnlessTerminated ==
    \A g \in Gens :
        /\ emits[g] <= 1
        /\ wstate[g] = "finished" => emits[g] = 1
        /\ wstate[g] = "running" => emits[g] = 0
        /\ (wstate[g] \in {"finished", "terminated"} /\ emits[g] = 0)
              => (wstate[g] = "terminated" /\ g < worker)

\* a worker terminated before its report, and a later one that finished after
\* reporting a read error
C8_Witness ==
    \E g, h \in Gens :
        /\ wstate[g] = "terminated" /\ emits[g] = 0
        /\ wstate[h] = "finished" /\ emits[h] = 1
        /\ lbl_checksum = [kind |-> "error", gen |-> h]

\* the workers whose run() is executing
Running == {g \in Gens : IsRunning(g)}

\* C13: at most one checksum worker is running, and it is the current one: a
\* worker still running when a new one is started has been terminated first.
C13_AtMostOneRunning ==
    /\ Cardinality(Running) <= 1
    /\ \A g \in Running : g = worker

\* C13: a worker was terminated while computing and its successor is running
C13_Witness ==
    \E g \in Gens :
        /\ g + 1 = worker
        /\ wstate[g] = "terminated"
        /\ emits[g] = 0
        /\ wstate[worker] = "running"

=============================================================================
